---- MODULE Spec2Model ----
(***************************************************************************)
(* The post-execution state journal (PostState) of                         *)
(* crates/storage/provider/src/execution_result.rs: the change log, the    *)
(* latest-value caches derived from it, and the merge of two journals.     *)
(***************************************************************************)
EXTENDS Integers, Sequences, FiniteSets, TLC

(***************************************************************************)
(* Bounds and input sets                                                   *)
(***************************************************************************)

\* Total size (changes + transitions + receipts + bytecodes) of all journals.
MaxSize == 3

\* Size of the journal handed to write_to_db.
MaxDbSize == 4

\* The bits of a counter of a NetworkIOMeter (64 in the code).
CounterBits == 2

\* The bytes a duplex stream buffers in one direction.
DuplexCapacity == 2

\* The polls of the inner streams made on the metered streams.
MaxIo == 4

\* The messages sent to the sync controller.
MaxMessages == 3

\* The runs of the pipeline started by next_pipeline_state.
MaxRuns == 10

\* The last cursor operation of write_to_db at which a database error is injected.
MaxFailAt == 12

\* The journal names: a receiver and an argument of extend; a third journal for
\* the merges of three.
Journals == {"a", "b"}
Journals3 == {"a", "b", "c"}

Addresses == {1, 2}

None == << >>
Some(x) == <<x>>

Acc1 == [balance |-> 1, nonce |-> 0, bytecode_hash |-> None]
Acc2 == [balance |-> 2, nonce |-> 0, bytecode_hash |-> Some(1)]

\* The accounts handed to create_account, the (old, new) pairs handed to
\* change_account and the accounts handed to destroy_account.
CreatedAccounts == {Acc1}
AccountPairs == {<<Acc1, Acc2>>}
DestroyedAccounts == {Acc2}

\* StorageChangeset values: slot -> (old, new).
Changesets == {(7 :> <<0, 42>>), (7 :> <<42, 0>> @@ 8 :> <<0, 1>>)}

CodeHashes == {1}
Bytecodes == {10, 20}
Receipts == {1, 2}

(***************************************************************************)
(* Maps (BTreeMap) as functions over the set of present keys               *)
(***************************************************************************)

EmptyMap == << >>

\* BTreeMap::insert: overrides the value of a present key.
MapInsert(m, k, v) == [x \in DOMAIN m \cup {k} |-> IF x = k THEN v ELSE m[x]]

\* BTreeMap::extend: inserts every entry of other, overriding present keys.
MapExtend(m, other) ==
    [x \in DOMAIN m \cup DOMAIN other |-> IF x \in DOMAIN other THEN other[x] ELSE m[x]]

\* BTreeMap::entry(k).or_insert(v): keeps the value of a present key.
MapOrInsert(m, k, v) == IF k \in DOMAIN m THEN m ELSE MapInsert(m, k, v)

(***************************************************************************)
(* Storage, Change                                                         *)
(***************************************************************************)

DefaultStorage == [wiped |-> FALSE, storage |-> EmptyMap]

AccountCreated(id, address, account) ==
    [kind |-> "AccountCreated", id |-> id, address |-> address, account |-> account]

AccountChanged(id, address, old, new_account) ==
    [kind |-> "AccountChanged", id |-> id, address |-> address, old |-> old,
     new |-> new_account]

StorageChanged(id, address, changeset) ==
    [kind |-> "StorageChanged", id |-> id, address |-> address, changeset |-> changeset]

StorageWiped(id, address) ==
    [kind |-> "StorageWiped", id |-> id, address |-> address]

AccountDestroyed(id, address, old) ==
    [kind |-> "AccountDestroyed", id |-> id, address |-> address, old |-> old]

transition_id(change) == change.id

set_transition_id(change, new_id) == [change EXCEPT !.id = new_id]

(***************************************************************************)
(* PostState                                                               *)
(***************************************************************************)

new ==
    [current_transition_id |-> 0,
     accounts |-> EmptyMap,
     storage |-> EmptyMap,
     changes |-> << >>,
     bytecode |-> EmptyMap,
     receipts |-> << >>]

transitions_count(self) == self.current_transition_id

\* storage.storage.insert(slot, current_value) for every slot of the changeset.
MergeChangeset(slots, changeset) ==
    [s \in DOMAIN slots \cup DOMAIN changeset |->
        IF s \in DOMAIN changeset THEN changeset[s][2] ELSE slots[s]]

StorageEntryOrDefault(storage, address) ==
    IF address \in DOMAIN storage THEN storage[address] ELSE DefaultStorage

\* A mutant of add_and_apply: the wipe also empties the cached slots.
add_and_apply_clearing(self, change) ==
    LET applied ==
          CASE change.kind = "AccountCreated" ->
                 [self EXCEPT !.accounts = MapInsert(@, change.address, Some(change.account))]
            [] change.kind = "AccountChanged" ->
                 [self EXCEPT !.accounts = MapInsert(@, change.address, Some(change.new))]
            [] change.kind = "AccountDestroyed" ->
                 [self EXCEPT !.accounts = MapInsert(@, change.address, None)]
            [] change.kind = "StorageChanged" ->
                 LET storage == StorageEntryOrDefault(self.storage, change.address)
                 IN  [self EXCEPT !.storage = MapInsert(@, change.address,
                        [wiped |-> FALSE,
                         storage |-> MergeChangeset(storage.storage, change.changeset)])]
            [] change.kind = "StorageWiped" ->
                 [self EXCEPT !.storage = MapInsert(@, change.address,
                        [wiped |-> TRUE, storage |-> EmptyMap])]
    IN  [applied EXCEPT !.changes = Append(@, change)]

add_and_apply(self, change) ==
    LET applied ==
          CASE change.kind = "AccountCreated" ->
                 [self EXCEPT !.accounts = MapInsert(@, change.address, Some(change.account))]
            [] change.kind = "AccountChanged" ->
                 [self EXCEPT !.accounts = MapInsert(@, change.address, Some(change.new))]
            [] change.kind = "AccountDestroyed" ->
                 [self EXCEPT !.accounts = MapInsert(@, change.address, None)]
            [] change.kind = "StorageChanged" ->
                 LET storage == StorageEntryOrDefault(self.storage, change.address)
                 IN  [self EXCEPT !.storage = MapInsert(@, change.address,
                        [wiped |-> FALSE,
                         storage |-> MergeChangeset(storage.storage, change.changeset)])]
            [] change.kind = "StorageWiped" ->
                 LET storage == StorageEntryOrDefault(self.storage, change.address)
                 IN  [self EXCEPT !.storage = MapInsert(@, change.address,
                        [storage EXCEPT !.wiped = TRUE])]
    IN  [applied EXCEPT !.changes = Append(@, change)]

\* A mutant of create_account: the change is filed under the next transition.
create_account_next_id(self, address, account) ==
    add_and_apply(self, AccountCreated(self.current_transition_id + 1, address, account))

create_account(self, address, account) ==
    add_and_apply(self, AccountCreated(self.current_transition_id, address, account))

change_account(self, address, old, new_account) ==
    add_and_apply(self,
        AccountChanged(self.current_transition_id, address, old, new_account))

\* A mutant of destroy_account: the storage wipe is not recorded.
destroy_account_no_wipe(self, address, account) ==
    add_and_apply(self, AccountDestroyed(self.current_transition_id, address, account))

\* A mutant of destroy_account: the wipe is recorded before the destruction.
destroy_account_wipe_first(self, address, account) ==
    add_and_apply(
        add_and_apply(self, StorageWiped(self.current_transition_id, address)),
        AccountDestroyed(self.current_transition_id, address, account))

destroy_account(self, address, account) ==
    add_and_apply(
        add_and_apply(self, AccountDestroyed(self.current_transition_id, address, account)),
        StorageWiped(self.current_transition_id, address))

change_storage(self, address, changeset) ==
    add_and_apply(self, StorageChanged(self.current_transition_id, address, changeset))

add_bytecode(self, code_hash, bytecode) ==
    [self EXCEPT !.bytecode = MapOrInsert(@, code_hash, bytecode)]

add_receipt(self, receipt) == [self EXCEPT !.receipts = Append(@, receipt)]

\* A mutant of finish_transition: the counter skips a transition.
finish_transition_skipping(self) ==
    [self EXCEPT !.current_transition_id = @ + 2]

finish_transition(self) == [self EXCEPT !.current_transition_id = @ + 1]

\* The loop of extend: every change of other, in order, rebased by the receiver's
\* current_transition_id (which the loop does not modify) and applied.
RECURSIVE extend_loop(_, _, _)
extend_loop(self, next_transition_id, changes) ==
    IF changes = << >>
    THEN [self |-> self, next_transition_id |-> next_transition_id]
    ELSE LET change == Head(changes)
             id == self.current_transition_id + transition_id(change)
         IN  extend_loop(add_and_apply(self, set_transition_id(change, id)),
                         id, Tail(changes))

\* A mutant of extend: the changes are appended without rebasing their ids.
extend_no_rebase(self, other) ==
    LET looped == extend_loop([self EXCEPT !.current_transition_id = 0],
                              self.current_transition_id, other.changes)
    IN  [looped.self EXCEPT
            !.receipts = @ \o other.receipts,
            !.bytecode = MapExtend(@, other.bytecode),
            !.current_transition_id =
                self.current_transition_id + other.current_transition_id]

\* A mutant of extend: other's changes are applied to the caches in reverse.
extend_prepending(self, other) ==
    LET looped == extend_loop([self EXCEPT !.changes = << >>],
                              self.current_transition_id, other.changes)
    IN  [looped.self EXCEPT
            !.changes = @ \o self.changes,
            !.receipts = @ \o other.receipts,
            !.bytecode = MapExtend(@, other.bytecode),
            !.current_transition_id = looped.next_transition_id]

extend(self, other) ==
    LET looped == extend_loop(self, self.current_transition_id, other.changes)
    IN  [looped.self EXCEPT
            !.receipts = @ \o other.receipts,
            !.bytecode = MapExtend(@, other.bytecode),
            !.current_transition_id = looped.next_transition_id]

(***************************************************************************)
(* The database transaction: tables and cursor operations                  *)
(***************************************************************************)

\* The transition offsets handed to write_to_db.
FirstTransitionIds == {0, 1}

\* The changesets handed to change_storage on a journal that is written: one
\* that writes zero to a slot, one that writes two slots.
DbChangesets == {(7 :> <<42, 0>>), (7 :> <<0, 42>> @@ 8 :> <<0, 1>>)}

\* The keys of a map in ascending order (the iteration order of a BTreeMap).
RECURSIVE SortedSeq(_)
SortedSeq(S) ==
    IF S = {} THEN << >>
    ELSE LET least == CHOOSE x \in S : \A y \in S : x <= y
         IN  <<least>> \o SortedSeq(S \ {least})

\* H256(key.to_be_bytes()): the 32-byte big-endian form of a slot number. Two
\* slots compare as their big-endian forms do, so the number stands for both.
H256(key) == key

StorageEntry(key, value) == [key |-> key, value |-> value]

AccountBeforeTx(address, info) == [address |-> address, info |-> info]

TransitionIdAddress(id, address) == <<id, address>>

\* The tables write_to_db touches. AccountChangeSet and StorageChangeSet hold
\* their rows in table order; PlainStorageState holds one row per duplicate.
EmptyDb ==
    [AccountChangeSet |-> << >>,
     StorageChangeSet |-> << >>,
     PlainStorageState |-> {},
     PlainAccountState |-> EmptyMap,
     Bytecodes |-> EmptyMap]

PopulatedDb ==
    [AccountChangeSet |-> <<[key |-> 1, value |-> AccountBeforeTx(2, None)]>>,
     StorageChangeSet |->
        <<[key |-> TransitionIdAddress(0, 1), value |-> StorageEntry(7, 0)]>>,
     PlainStorageState |->
        {[key |-> 1, value |-> StorageEntry(7, 5)],
         [key |-> 1, value |-> StorageEntry(8, 6)],
         [key |-> 1, value |-> StorageEntry(9, 3)],
         [key |-> 2, value |-> StorageEntry(7, 9)]},
     PlainAccountState |-> (1 :> Acc1 @@ 2 :> Acc1),
     Bytecodes |-> (2 :> 30)]

InitialDbs == {EmptyDb, PopulatedDb}

\* A transaction on the tables: the cursor operations called so far, the
\* operation at which the database fails (0: none) and the error returned.
BeginTx(tables, fail_at) ==
    [tables |-> tables, ops |-> 0, fail_at |-> fail_at, error |-> "none"]

\* One cursor operation of the database: it fails when it is the one chosen to
\* fail, and has its effect otherwise.
DbCall(tx, effect) ==
    IF tx.ops + 1 = tx.fail_at
    THEN [tx EXCEPT !.ops = @ + 1, !.error = "Injected"]
    ELSE [effect EXCEPT !.ops = tx.ops + 1]

\* The order of the keys of a table: TransitionId for AccountChangeSet,
\* (TransitionId, Address) for StorageChangeSet.
KeyLeq(table, k1, k2) ==
    IF table = "AccountChangeSet"
    THEN k1 <= k2
    ELSE k1[1] < k2[1] \/ (k1[1] = k2[1] /\ k1[2] <= k2[2])

\* append_dup: the row goes to the end of the table; its key must not be
\* smaller than the key of the last row.
append_dup(tx, table, key, value) ==
    LET rows == tx.tables[table]
    IN  IF rows = << >> \/ KeyLeq(table, rows[Len(rows)].key, key)
        THEN [tx EXCEPT !.tables[table] = Append(@, [key |-> key, value |-> value])]
        ELSE [tx EXCEPT !.error = "KeyMismatch"]

\* The duplicates of a key in PlainStorageState in table order: by storage key,
\* then by value.
RECURSIVE DupEntries(_)
DupEntries(rows) ==
    IF rows = {} THEN << >>
    ELSE LET least == CHOOSE r \in rows : \A q \in rows :
                        \/ r.value.key < q.value.key
                        \/ r.value.key = q.value.key /\ r.value.value <= q.value.value
         IN  <<least.value>> \o DupEntries(rows \ {least})

\* seek_exact on a dup-sort table: the cursor stands on the first duplicate of
\* the key, which is the entry returned (None when the key has no row).
seek_exact(rows, key) ==
    [entries |-> DupEntries({r \in rows : r.key = key}), pos |-> 1]

current(cursor) ==
    IF cursor.pos <= Len(cursor.entries) THEN Some(cursor.entries[cursor.pos]) ELSE None

\* next_dup_val: moves to the duplicate after the current one and returns it
\* (None when the current one is the last).
next_dup(cursor) == [cursor EXCEPT !.pos = @ + 1]

\* seek_by_key_subkey: the first duplicate of the key whose subkey is not
\* smaller than the one sought.
seek_by_key_subkey(rows, key, subkey) ==
    LET entries == DupEntries({r \in rows : r.key = key /\ r.value.key >= subkey})
    IN  [entries |-> entries, pos |-> 1]

\* delete_current on PlainStorageState: removes the duplicate the cursor is on.
delete_current_dup(tx, key, entry) ==
    [tx EXCEPT !.tables.PlainStorageState = @ \ {[key |-> key, value |-> entry]}]

\* delete_current_duplicates: removes every duplicate of the cursor's key.
delete_current_duplicates(tx, key) ==
    [tx EXCEPT !.tables.PlainStorageState = {r \in @ : r.key # key}]

\* upsert on the dup-sort table PlainStorageState: adds the duplicate.
upsert_dup(tx, key, entry) ==
    [tx EXCEPT !.tables.PlainStorageState = @ \cup {[key |-> key, value |-> entry]}]

\* upsert on a table without duplicates: sets the row of the key.
upsert(tx, table, key, value) ==
    [tx EXCEPT !.tables[table] = MapInsert(@, key, value)]

\* delete_current on a table without duplicates: removes the row of the key.
delete_current(tx, table, key) ==
    [tx EXCEPT !.tables[table] = [k \in DOMAIN @ \ {key} |-> @[k]]]

(***************************************************************************)
(* write_to_db                                                             *)
(***************************************************************************)

\* The ? after a cursor operation: once an operation has returned an error,
\* write_to_db has returned it and nothing after it runs.
Returned(tx) == tx.error # "none"

\* A cursor call whose result is not looked at: the next one is made.
Unchecked(tx, effect) == DbCall(tx, effect)

Try(tx, effect) == IF Returned(tx) THEN tx ELSE DbCall(tx, effect)

\* tx.cursor_write()? and tx.cursor_dup_write()?
open_cursor(tx) == Try(tx, tx)

address_of(change) == change.address

\* The key changesets are sorted by.
SortKeyLeq(c1, c2) ==
    \/ transition_id(c1) < transition_id(c2)
    \/ transition_id(c1) = transition_id(c2) /\ address_of(c1) <= address_of(c2)

\* sort_unstable_by_key: any arrangement of the changes that is sorted by the
\* key; changes of equal key may come out in either order.
SortedOrders(changes) ==
    LET n == Len(changes)
    IN  {order \in [1..n -> 1..n] :
            /\ \A i, j \in 1..n : i # j => order[i] # order[j]
            /\ \A i \in 1..n : i < n => SortKeyLeq(changes[order[i]], changes[order[i + 1]])}

IsAccountChange(change) ==
    change.kind \in {"AccountChanged", "AccountCreated", "AccountDestroyed"}

IsStorageChange(change) == ~IsAccountChange(change)

\* Write account changes, with Some(old) written for every kind of change.
RECURSIVE write_account_changes_all_some(_, _, _)
write_account_changes_all_some(tx, account_changes, first_transition_id) ==
    IF account_changes = << >> THEN tx
    ELSE LET changeset == Head(account_changes)
             info == IF changeset.kind = "AccountCreated"
                     THEN Some(changeset.account) ELSE Some(changeset.old)
         IN  write_account_changes_all_some(
                 Try(tx, append_dup(tx, "AccountChangeSet",
                                    first_transition_id + changeset.id,
                                    AccountBeforeTx(changeset.address, info))),
                 Tail(account_changes), first_transition_id)

\* Write account changes.
RECURSIVE write_account_changes(_, _, _)
write_account_changes(tx, account_changes, first_transition_id) ==
    IF account_changes = << >> THEN tx
    ELSE LET changeset == Head(account_changes)
             info == IF changeset.kind = "AccountCreated"
                     THEN None ELSE Some(changeset.old)
         IN  write_account_changes(
                 Try(tx, append_dup(tx, "AccountChangeSet",
                                    first_transition_id + changeset.id,
                                    AccountBeforeTx(changeset.address, info))),
                 Tail(account_changes), first_transition_id)

\* for (key, (_, new_value)) in changeset: the new value is appended.
RECURSIVE write_storage_changed_new(_, _, _, _)
write_storage_changed_new(tx, storage_id, changeset, keys) ==
    IF keys = << >> THEN tx
    ELSE LET key == Head(keys)
             new_value == changeset[key][2]
         IN  write_storage_changed_new(
                 Try(tx, append_dup(tx, "StorageChangeSet", storage_id,
                                    StorageEntry(H256(key), new_value))),
                 storage_id, changeset, Tail(keys))

\* for (key, (old_value, _)) in changeset: append_dup to StorageChangeSet.
RECURSIVE write_storage_changed(_, _, _, _)
write_storage_changed(tx, storage_id, changeset, keys) ==
    IF keys = << >> THEN tx
    ELSE LET key == Head(keys)
             old_value == changeset[key][1]
         IN  write_storage_changed(
                 Try(tx, append_dup(tx, "StorageChangeSet", storage_id,
                                    StorageEntry(H256(key), old_value))),
                 storage_id, changeset, Tail(keys))

\* while let Some(entry) = storages_cursor.next_dup_val()?: append_dup the
\* entry to StorageChangeSet.
RECURSIVE write_storage_wiped_loop(_, _, _)
write_storage_wiped_loop(tx, storage_id, cursor) ==
    LET moved == Try(tx, tx)
        entry == current(next_dup(cursor))
    IN  IF Returned(moved) \/ entry = None THEN moved
        ELSE write_storage_wiped_loop(
                 Try(moved, append_dup(moved, "StorageChangeSet", storage_id, entry[1])),
                 storage_id, next_dup(cursor))

\* Change::StorageWiped
write_storage_wiped(tx, storage_id, address) ==
    LET sought == Try(tx, tx)
        cursor == seek_exact(tx.tables.PlainStorageState, address)
    IN  IF Returned(sought) \/ current(cursor) = None THEN sought
        ELSE write_storage_wiped_loop(sought, storage_id, cursor)

\* Write storage changes.
RECURSIVE write_storage_changes(_, _, _)
write_storage_changes(tx, storage_changes, first_transition_id) ==
    IF storage_changes = << >> THEN tx
    ELSE LET changeset == Head(storage_changes)
             storage_id == TransitionIdAddress(first_transition_id + changeset.id,
                                               changeset.address)
             written ==
                 IF changeset.kind = "StorageChanged"
                 THEN write_storage_changed(tx, storage_id, changeset.changeset,
                                            SortedSeq(DOMAIN changeset.changeset))
                 ELSE write_storage_wiped(tx, storage_id, changeset.address)
         IN  write_storage_changes(written, Tail(storage_changes), first_transition_id)

\* One (key, value) of a storage that is not wiped, with the value written
\* whatever it is.
write_slot_with_zero(tx, address, slot, value) ==
    LET key == H256(slot)
        sought == Try(tx, tx)
        entry == current(seek_by_key_subkey(tx.tables.PlainStorageState, address, key))
        deleted == IF entry # None /\ entry[1].key = key
                   THEN Try(sought, delete_current_dup(sought, address, entry[1]))
                   ELSE sought
    IN  Try(deleted, upsert_dup(deleted, address, StorageEntry(key, value)))

\* One (key, value) of a storage that is not wiped, with the existing entry
\* left in the table.
write_slot_no_delete(tx, address, slot, value) ==
    LET key == H256(slot)
        sought == Try(tx, tx)
    IN  IF value # 0
        THEN Try(sought, upsert_dup(sought, address, StorageEntry(key, value)))
        ELSE sought

\* One (key, value) of a storage that is not wiped.
write_slot(tx, address, slot, value) ==
    LET key == H256(slot)
        sought == Try(tx, tx)
        entry == current(seek_by_key_subkey(tx.tables.PlainStorageState, address, key))
        deleted == IF entry # None /\ entry[1].key = key
                   THEN Try(sought, delete_current_dup(sought, address, entry[1]))
                   ELSE sought
    IN  IF value # 0
        THEN Try(deleted, upsert_dup(deleted, address, StorageEntry(key, value)))
        ELSE deleted

\* for (key, value) in storage.storage
RECURSIVE write_slots(_, _, _, _)
write_slots(tx, address, storage, keys) ==
    IF keys = << >> THEN tx
    ELSE write_slots(write_slot(tx, address, Head(keys), storage[Head(keys)]),
                     address, storage, Tail(keys))

\* if storage.wiped, with the entries found left where they are.
write_wiped_keeping(tx, address) == Try(tx, tx)

\* if storage.wiped: the entries of the address are deleted, and the loop
\* continues with the next address.
write_wiped(tx, address) ==
    LET sought == Try(tx, tx)
        entry == current(seek_exact(tx.tables.PlainStorageState, address))
    IN  IF entry # None
        THEN Try(sought, delete_current_duplicates(sought, address))
        ELSE sought

\* Write new storage state.
RECURSIVE write_storage(_, _, _)
write_storage(tx, storage, addresses) ==
    IF addresses = << >> THEN tx
    ELSE LET address == Head(addresses)
             written ==
                 IF storage[address].wiped
                 THEN write_wiped(tx, address)
                 ELSE write_slots(tx, address, storage[address].storage,
                                  SortedSeq(DOMAIN storage[address].storage))
         IN  write_storage(written, storage, Tail(addresses))

\* One (address, account) of the accounts, with nothing done for None.
write_account_keeping(tx, address, account) ==
    IF account # None
    THEN Try(tx, upsert(tx, "PlainAccountState", address, account[1]))
    ELSE tx

\* One (address, account) of the accounts.
write_account(tx, address, account) ==
    IF account # None
    THEN Try(tx, upsert(tx, "PlainAccountState", address, account[1]))
    ELSE LET sought == Try(tx, tx)
         IN  IF address \in DOMAIN tx.tables.PlainAccountState
             THEN Try(sought, delete_current(sought, "PlainAccountState", address))
             ELSE sought

\* Write new account state.
RECURSIVE write_accounts(_, _, _)
write_accounts(tx, accounts, addresses) ==
    IF addresses = << >> THEN tx
    ELSE write_accounts(write_account(tx, Head(addresses), accounts[Head(addresses)]),
                        accounts, Tail(addresses))

\* Write bytecode.
RECURSIVE write_bytecodes(_, _, _)
write_bytecodes(tx, bytecode, hashes) ==
    IF hashes = << >> THEN tx
    ELSE write_bytecodes(
             Try(tx, upsert(tx, "Bytecodes", Head(hashes), bytecode[Head(hashes)])),
             bytecode, Tail(hashes))

\* write_to_db, with changesets the outcome of the sort.
write_sorted(self, tx, first_transition_id, changesets) ==
    LET account_changes == SelectSeq(changesets, IsAccountChange)
        storage_changes == SelectSeq(changesets, IsStorageChange)
        account_changeset_cursor == open_cursor(tx)
        accounts_logged ==
            write_account_changes(account_changeset_cursor, account_changes,
                                  first_transition_id)
        storages_cursor == open_cursor(accounts_logged)
        storage_changeset_cursor == open_cursor(storages_cursor)
        storage_logged ==
            write_storage_changes(storage_changeset_cursor, storage_changes,
                                  first_transition_id)
        storage_written ==
            write_storage(storage_logged, self.storage, SortedSeq(DOMAIN self.storage))
        accounts_cursor == open_cursor(storage_written)
        accounts_written ==
            write_accounts(accounts_cursor, self.accounts, SortedSeq(DOMAIN self.accounts))
        bytecodes_cursor == open_cursor(accounts_written)
    IN  write_bytecodes(bytecodes_cursor, self.bytecode, SortedSeq(DOMAIN self.bytecode))

\* The outcomes of write_to_db: one for every order the sort may leave the
\* changes in.
write_to_db(self, tx, first_transition_id) ==
    {write_sorted(self, tx, first_transition_id,
                  [k \in 1..Len(self.changes) |-> self.changes[order[k]]]) :
        order \in SortedOrders(self.changes)}

(***************************************************************************)
(* State                                                                   *)
(***************************************************************************)

VARIABLES
    ps,            \* the PostState held under each journal name
    last,          \* the last call: its name, journals and their values before it
    finish_calls,  \* finish_transition calls made on each journal since new()
    extended,      \* whether extend was called on the journal since new()
    db,            \* the database transaction handed to write_to_db
    net,           \* the metered streams, their meters and the streams they wrap
    ctl            \* the sync controller and its message channel

vars == <<ps, last, finish_calls, extended, db, net, ctl>>

\* No database: the journals are only built and merged.
NoDb == [phase |-> "none"]

Size(self) ==
    Len(self.changes) + self.current_transition_id + Len(self.receipts)
        + Cardinality(DOMAIN self.bytecode)

JournalSize(j) == IF j \in DOMAIN ps THEN Size(ps[j]) ELSE 0

TotalSize == JournalSize("a") + JournalSize("b") + JournalSize("c")

SizeBound == IF db.phase = "none" THEN MaxSize ELSE MaxDbSize

\* write_to_db takes the journal by value: nothing is recorded on it afterwards.
Room(n) == db.phase # "written" /\ TotalSize + n <= SizeBound

Call(op, j, post) ==
    /\ ps' = [ps EXCEPT ![j] = post]
    /\ last' = [op |-> op, self |-> j, other |-> j,
                pre_self |-> ps[j], pre_other |-> ps[j]]
    /\ UNCHANGED <<db, net, ctl>>

InitWith(names) ==
    /\ ps = [j \in names |-> new]
    /\ last = [op |-> "new", self |-> "a", other |-> "a",
               pre_self |-> new, pre_other |-> new]
    /\ finish_calls = [j \in names |-> 0]
    /\ extended = [j \in names |-> FALSE]

\* No stream and no controller: only journals and their database.
NoNet == [phase |-> "none"]

NoCtl == [phase |-> "none"]

Init == InitWith(Journals) /\ db = NoDb /\ net = NoNet /\ ctl = NoCtl

CreateAccount(j, address, account) ==
    /\ Room(1)
    /\ Call("create_account", j, create_account(ps[j], address, account))
    /\ UNCHANGED <<finish_calls, extended>>

ChangeAccount(j, address, old, new_account) ==
    /\ Room(1)
    /\ Call("change_account", j, change_account(ps[j], address, old, new_account))
    /\ UNCHANGED <<finish_calls, extended>>

DestroyAccount(j, address, account) ==
    /\ Room(2)
    /\ Call("destroy_account", j, destroy_account(ps[j], address, account))
    /\ UNCHANGED <<finish_calls, extended>>

ChangeStorage(j, address, changeset) ==
    /\ Room(1)
    /\ Call("change_storage", j, change_storage(ps[j], address, changeset))
    /\ UNCHANGED <<finish_calls, extended>>

AddBytecode(j, code_hash, bytecode) ==
    /\ Room(1) \/ code_hash \in DOMAIN ps[j].bytecode
    /\ Call("add_bytecode", j, add_bytecode(ps[j], code_hash, bytecode))
    /\ UNCHANGED <<finish_calls, extended>>

AddReceipt(j, receipt) ==
    /\ Room(1)
    /\ Call("add_receipt", j, add_receipt(ps[j], receipt))
    /\ UNCHANGED <<finish_calls, extended>>

FinishTransition(j) ==
    /\ Room(1)
    /\ Call("finish_transition", j, finish_transition(ps[j]))
    /\ finish_calls' = [finish_calls EXCEPT ![j] = @ + 1]
    /\ UNCHANGED extended

\* self.extend(other) takes other by value: the name j holds a new journal after.
Extend(i, j) ==
    /\ i # j
    /\ ps' = [ps EXCEPT ![i] = extend(ps[i], ps[j]), ![j] = new]
    /\ last' = [op |-> "extend", self |-> i, other |-> j,
                pre_self |-> ps[i], pre_other |-> ps[j]]
    /\ finish_calls' = [finish_calls EXCEPT ![j] = 0]
    /\ extended' = [extended EXCEPT ![i] = TRUE, ![j] = FALSE]
    /\ UNCHANGED <<db, net, ctl>>

Next ==
    \/ \E j \in Journals, address \in Addresses, account \in CreatedAccounts :
          CreateAccount(j, address, account)
    \/ \E j \in Journals, address \in Addresses, pair \in AccountPairs :
          ChangeAccount(j, address, pair[1], pair[2])
    \/ \E j \in Journals, address \in Addresses, account \in DestroyedAccounts :
          DestroyAccount(j, address, account)
    \/ \E j \in Journals, address \in Addresses, changeset \in Changesets :
          ChangeStorage(j, address, changeset)
    \/ \E j \in Journals, code_hash \in CodeHashes, bytecode \in Bytecodes :
          AddBytecode(j, code_hash, bytecode)
    \/ \E j \in Journals, receipt \in Receipts : AddReceipt(j, receipt)
    \/ \E j \in Journals : FinishTransition(j)
    \/ \E i \in Journals, j \in Journals : Extend(i, j)

Spec == Init /\ [][Next]_vars

\* The merges of three journals, on a narrower set of inputs.
InitAssoc == InitWith(Journals3) /\ db = NoDb /\ net = NoNet /\ ctl = NoCtl

NextAssoc ==
    \/ \E j \in Journals3, account \in CreatedAccounts : CreateAccount(j, 1, account)
    \/ \E j \in Journals3, bytecode \in Bytecodes : AddBytecode(j, 1, bytecode)
    \/ \E j \in Journals3 : AddReceipt(j, 1)
    \/ \E j \in Journals3 : FinishTransition(j)
    \/ \E i \in Journals3, j \in Journals3 : Extend(i, j)

SpecAssoc == InitAssoc /\ [][NextAssoc]_vars

\* A transaction begun on the tables, before write_to_db is called on it.
OpenDb(tables, first_transition_id, fail_at) ==
    [phase |-> "open", first |-> first_transition_id,
     before |-> BeginTx(tables, fail_at), after |-> BeginTx(tables, fail_at)]

\* self.write_to_db(tx, first_transition_id) takes self by value: the name j
\* holds a new journal after.
WriteToDb(j) ==
    /\ db.phase = "open"
    /\ \E written \in write_to_db(ps[j], db.before, db.first) :
          db' = [db EXCEPT !.phase = "written", !.after = written]
    /\ ps' = [ps EXCEPT ![j] = new]
    /\ last' = [op |-> "write_to_db", self |-> j, other |-> j,
                pre_self |-> ps[j], pre_other |-> ps[j]]
    /\ finish_calls' = [finish_calls EXCEPT ![j] = 0]
    /\ extended' = [extended EXCEPT ![j] = FALSE]
    /\ UNCHANGED <<net, ctl>>

\* One journal built and then written to a database that does not fail.
InitDb ==
    /\ InitWith({"a"})
    /\ \E tables \in InitialDbs, first_transition_id \in FirstTransitionIds :
          db = OpenDb(tables, first_transition_id, 0)
    /\ net = NoNet /\ ctl = NoCtl

NextDb ==
    \/ \E address \in Addresses, account \in CreatedAccounts :
          CreateAccount("a", address, account)
    \/ \E address \in Addresses, pair \in AccountPairs :
          ChangeAccount("a", address, pair[1], pair[2])
    \/ \E address \in Addresses, account \in DestroyedAccounts :
          DestroyAccount("a", address, account)
    \/ \E address \in Addresses, changeset \in DbChangesets :
          ChangeStorage("a", address, changeset)
    \/ \E code_hash \in CodeHashes, bytecode \in Bytecodes :
          AddBytecode("a", code_hash, bytecode)
    \/ FinishTransition("a")
    \/ WriteToDb("a")

SpecDb == InitDb /\ [][NextDb]_vars

\* One journal built on one address and then written to a database in which
\* one cursor operation may fail.
InitDbErr ==
    /\ InitWith({"a"})
    /\ \E tables \in InitialDbs, first_transition_id \in FirstTransitionIds,
          fail_at \in 0..MaxFailAt :
          db = OpenDb(tables, first_transition_id, fail_at)
    /\ net = NoNet /\ ctl = NoCtl

NextDbErr ==
    \/ \E account \in CreatedAccounts : CreateAccount("a", 1, account)
    \/ \E account \in DestroyedAccounts : DestroyAccount("a", 1, account)
    \/ \E changeset \in DbChangesets : ChangeStorage("a", 1, changeset)
    \/ \E bytecode \in Bytecodes : AddBytecode("a", 1, bytecode)
    \/ WriteToDb("a")

SpecDbErr == InitDbErr /\ [][NextDbErr]_vars

(***************************************************************************)
(* NetworkIOMeter, MeteredStream                                           *)
(***************************************************************************)

\* The AtomicU64 counters, on CounterBits bits instead of 64.
Modulus == 2 ^ CounterBits

u64_max_value == Modulus - 1

\* u64::try_from(n).unwrap_or(u64::max_value())
try_from(n) == IF n <= u64_max_value THEN n ELSE u64_max_value

\* A store of the bytes of this poll in place of the addition.
store(value, n) == n % Modulus

\* AtomicU64::fetch_add stores the sum, which wraps around on overflow; the
\* value before is returned.
fetch_add(value, n) == (value + n) % Modulus

\* The + on u64 after fetch_add: wraps, or panics in a build with overflow
\* checks.
Overflows(value, n) == value + n > u64_max_value

\* NetworkIOMeter::default()
DefaultMeter == [ingress |-> 0, egress |-> 0]

total_ingress(meter) == meter.ingress

total_egress(meter) == meter.egress

\* The counters a NetworkIOMeterMetrics publishes to, and the readings taken.
NewMetrics == [ingress_bytes |-> 0, egress_bytes |-> 0, readings |-> 0]

\* Counter::absolute
absolute(metrics, counter, value) ==
    [metrics EXCEPT ![counter] = value, !.readings = @ + 1]

\* What a poll returns: Pending, Ready(Err), Ready(Ok) with the bytes
\* transferred, or a panic.
Pending == [poll |-> "Pending", n |-> 0]

Err == [poll |-> "Err", n |-> 0]

Ok(n) == [poll |-> "Ok", n |-> n]

Panic == [poll |-> "Panic", n |-> 0]

\* poll_read that adds the size of the buffer instead of the bytes filled.
poll_read_buffer_size(this, inner, size, overflow_checks) ==
    IF inner.poll # "Ok" THEN [this |-> this, result |-> inner]
    ELSE LET num_bytes_u64 == try_from(size)
             previous == this.meter.ingress
             counted == [this EXCEPT !.meter.ingress = fetch_add(previous, num_bytes_u64)]
             current_ingress == (previous + num_bytes_u64) % Modulus
         IN  IF Overflows(previous, num_bytes_u64) /\ overflow_checks
             THEN [this |-> counted, result |-> Panic]
             ELSE [this |-> IF counted.metrics = None THEN counted
                            ELSE [counted EXCEPT !.metrics =
                                     Some(absolute(@[1], "ingress_bytes", current_ingress))],
                   result |-> Ok(0)]

\* poll_read that counts the buffer before it looks at what the inner stream
\* returned.
poll_read_counting_failures(this, inner, size, overflow_checks) ==
    [this |-> [this EXCEPT !.meter.ingress = fetch_add(@, try_from(size))],
     result |-> IF inner.poll = "Ok" THEN Ok(0) ELSE inner]

\* AsyncRead::poll_read of MeteredStream, on what the inner poll_read returned:
\* inner.n is the growth of buf.filled().
poll_read(this, inner, size, overflow_checks) ==
    IF inner.poll # "Ok" THEN [this |-> this, result |-> inner]
    ELSE LET num_bytes_u64 == try_from(inner.n)
             previous == this.meter.ingress
             counted == [this EXCEPT !.meter.ingress = fetch_add(previous, num_bytes_u64)]
             current_ingress == (previous + num_bytes_u64) % Modulus
         IN  IF Overflows(previous, num_bytes_u64) /\ overflow_checks
             THEN [this |-> counted, result |-> Panic]
             ELSE [this |-> IF counted.metrics = None THEN counted
                            ELSE [counted EXCEPT !.metrics =
                                     Some(absolute(@[1], "ingress_bytes", current_ingress))],
                   result |-> Ok(0)]

\* poll_write that adds the length of the buffer instead of the bytes accepted.
poll_write_buffer_size(this, inner, size, overflow_checks) ==
    IF inner.poll # "Ok" THEN [this |-> this, result |-> inner]
    ELSE [this |-> [this EXCEPT !.meter.egress = fetch_add(@, try_from(size))],
          result |-> Ok(inner.n)]

\* AsyncWrite::poll_write of MeteredStream, on what the inner poll_write
\* returned: inner.n is the number of bytes the inner stream accepted.
poll_write(this, inner, size, overflow_checks) ==
    IF inner.poll # "Ok" THEN [this |-> this, result |-> inner]
    ELSE LET num_bytes == inner.n
             num_bytes_u64 == try_from(num_bytes)
             previous == this.meter.egress
             counted == [this EXCEPT !.meter.egress = fetch_add(previous, num_bytes_u64)]
             current_egress == (previous + num_bytes_u64) % Modulus
         IN  IF Overflows(previous, num_bytes_u64) /\ overflow_checks
             THEN [this |-> counted, result |-> Panic]
             ELSE [this |-> IF counted.metrics = None THEN counted
                            ELSE [counted EXCEPT !.metrics =
                                     Some(absolute(@[1], "egress_bytes", current_egress))],
                   result |-> Ok(num_bytes)]

\* poll_flush that reports success whatever the inner stream returned.
poll_flush_always_ok(this, inner) == [this |-> this, result |-> Ok(0)]

\* AsyncWrite::poll_flush of MeteredStream
poll_flush(this, inner) == [this |-> this, result |-> inner]

\* AsyncWrite::poll_shutdown of MeteredStream
poll_shutdown(this, inner) == [this |-> this, result |-> inner]

\* The sizes of the buffers handed to poll_read and poll_write.
BufferSizes == {1, 2}

Min(a, b) == IF a <= b THEN a ELSE b

\* Two metered streams at the two ends of a duplex stream, each with the meter
\* MeteredStream::new gives it.
OwnMeters ==
    [phase |-> "io",
     peer |-> [client |-> "server", server |-> "client"],
     meter_of |-> [client |-> "client", server |-> "server"],
     meters |-> [client |-> DefaultMeter, server |-> DefaultMeter]]

\* Two duplex streams whose client ends share one meter and whose server ends
\* share another, handed to them by set_meter.
SharedMeters ==
    [phase |-> "io",
     peer |-> [client_1 |-> "server_1", server_1 |-> "client_1",
               client_2 |-> "server_2", server_2 |-> "client_2"],
     meter_of |-> [client_1 |-> "client", client_2 |-> "client",
                   server_1 |-> "server", server_2 |-> "server"],
     meters |-> [client |-> DefaultMeter, server |-> DefaultMeter]]

\* The streams of a topology before any poll; metrics holds what
\* expose_metrics has set on each.
Connected(topology, metrics, overflow_checks) ==
    [phase |-> "io",
     peer |-> topology.peer,
     meter_of |-> topology.meter_of,
     meters |-> topology.meters,
     metrics |-> metrics,
     overflow_checks |-> overflow_checks,
     pipe |-> [s \in DOMAIN topology.peer |-> 0],
     pending |-> [s \in DOMAIN topology.peer |-> None],
     panicked |-> {},
     ios |-> 0,
     transferred |-> [s \in DOMAIN topology.peer |-> [read |-> 0, written |-> 0]],
     last |-> [op |-> "new", stream |-> "", inner |-> Pending, size |-> 0,
               result |-> Pending, pre_meters |-> topology.meters,
               pre_metrics |-> metrics]]

Streams == DOMAIN net.peer

\* The MeteredStream s: its meter and its metrics.
This(s) == [meter |-> net.meters[net.meter_of[s]], metrics |-> net.metrics[s]]

\* The return of a poll on s: what it has stored, and what it returned.
Return(state, s, op, inner, size, out) ==
    [state EXCEPT !.meters[net.meter_of[s]] = out.this.meter,
                  !.metrics[s] = out.this.metrics,
                  !.pending[s] = None,
                  !.panicked = IF out.result = Panic THEN @ \cup {s} ELSE @,
                  !.last = [op |-> op, stream |-> s, inner |-> inner, size |-> size,
                            result |-> out.result, pre_meters |-> net.meters,
                            pre_metrics |-> net.metrics]]

CanPoll(s) ==
    /\ net.phase = "io"
    /\ s \in Streams \ net.panicked
    /\ net.pending[s] = None
    /\ net.ios < MaxIo

\* What the inner stream returns to poll_read: an error, Pending when nothing
\* is buffered, or the bytes it has put in the buffer.
InnerRead(s, size, fails) ==
    IF fails THEN Err
    ELSE IF net.pipe[s] = 0 THEN Pending
    ELSE Ok(Min(size, net.pipe[s]))

\* What the inner stream returns to poll_write: an error, Pending when the
\* peer's buffer is full, or the number of bytes it has accepted.
InnerWrite(s, size, fails) ==
    IF fails THEN Err
    ELSE IF net.pipe[net.peer[s]] = DuplexCapacity THEN Pending
    ELSE Ok(Min(size, DuplexCapacity - net.pipe[net.peer[s]]))

\* poll_read up to the return of the inner poll_read: it returns at once when
\* the inner stream is not ready or has failed.
PollRead(s, size, fails) ==
    /\ CanPoll(s)
    /\ LET inner == InnerRead(s, size, fails)
           polled == [net EXCEPT !.ios = @ + 1]
       IN  net' = IF inner.poll = "Ok"
                  THEN [polled EXCEPT !.pipe[s] = @ - inner.n,
                                      !.pending[s] = Some([op |-> "poll_read",
                                                           inner |-> inner, size |-> size])]
                  ELSE Return(polled, s, "poll_read", inner, size,
                              poll_read(This(s), inner, size, net.overflow_checks))
    /\ UNCHANGED <<ps, last, finish_calls, extended, db, ctl>>

\* poll_write up to the return of the inner poll_write.
PollWrite(s, size, fails) ==
    /\ CanPoll(s)
    /\ LET inner == InnerWrite(s, size, fails)
           polled == [net EXCEPT !.ios = @ + 1]
       IN  net' = IF inner.poll = "Ok"
                  THEN [polled EXCEPT !.pipe[net.peer[s]] = @ + inner.n,
                                      !.pending[s] = Some([op |-> "poll_write",
                                                           inner |-> inner, size |-> size])]
                  ELSE Return(polled, s, "poll_write", inner, size,
                              poll_write(This(s), inner, size, net.overflow_checks))
    /\ UNCHANGED <<ps, last, finish_calls, extended, db, ctl>>

\* The rest of poll_read or poll_write after the inner stream has transferred
\* bytes: the fetch_add on the meter, the reading published, the return.
Count(s) ==
    /\ net.phase = "io"
    /\ s \in Streams
    /\ net.pending[s] # None
    /\ LET call == net.pending[s][1]
           out == IF call.op = "poll_read"
                  THEN poll_read(This(s), call.inner, call.size, net.overflow_checks)
                  ELSE poll_write(This(s), call.inner, call.size, net.overflow_checks)
           counted == IF call.op = "poll_read"
                      THEN [net EXCEPT !.transferred[s].read = @ + call.inner.n]
                      ELSE [net EXCEPT !.transferred[s].written = @ + call.inner.n]
       IN  net' = Return(counted, s, call.op, call.inner, call.size, out)
    /\ UNCHANGED <<ps, last, finish_calls, extended, db, ctl>>

InnerResults == {Pending, Err, Ok(0)}

PollFlush(s, inner) ==
    /\ CanPoll(s)
    /\ net' = Return([net EXCEPT !.ios = @ + 1], s, "poll_flush", inner, 0,
                     poll_flush(This(s), inner))
    /\ UNCHANGED <<ps, last, finish_calls, extended, db, ctl>>

PollShutdown(s, inner) ==
    /\ CanPoll(s)
    /\ net' = Return([net EXCEPT !.ios = @ + 1], s, "poll_shutdown", inner, 0,
                     poll_shutdown(This(s), inner))
    /\ UNCHANGED <<ps, last, finish_calls, extended, db, ctl>>

\* The two ends of one duplex stream, each with its own meter; the client may
\* have metrics exposed.
InitMeter ==
    /\ InitWith({"a"}) /\ db = NoDb /\ ctl = NoCtl
    /\ \E exposed \in {None, Some(NewMetrics)}, overflow_checks \in BOOLEAN :
          net = Connected(OwnMeters, [client |-> exposed, server |-> None],
                          overflow_checks)

NextMeter ==
    \/ \E s \in Streams, size \in BufferSizes, fails \in BOOLEAN : PollRead(s, size, fails)
    \/ \E s \in Streams, size \in BufferSizes, fails \in BOOLEAN : PollWrite(s, size, fails)
    \/ \E s \in Streams : Count(s)
    \/ \E s \in Streams, inner \in InnerResults : PollFlush(s, inner)
    \/ \E s \in Streams, inner \in InnerResults : PollShutdown(s, inner)

SpecMeter == InitMeter /\ [][NextMeter]_vars

\* Two duplex streams on shared meters, polled in any interleaving.
InitShared ==
    /\ InitWith({"a"}) /\ db = NoDb /\ ctl = NoCtl
    /\ \E overflow_checks \in BOOLEAN :
          net = Connected(SharedMeters, [s \in DOMAIN SharedMeters.peer |-> None],
                          overflow_checks)

NextShared ==
    \/ \E s \in Streams, size \in BufferSizes : PollRead(s, size, FALSE)
    \/ \E s \in Streams, size \in BufferSizes : PollWrite(s, size, FALSE)
    \/ \E s \in Streams : Count(s)

SpecShared == InitShared /\ [][NextShared]_vars

(***************************************************************************)
(* SyncController                                                          *)
(***************************************************************************)

\* ForkchoiceState: a target at the known head, or one ahead of it.
ForkchoiceStates == {"at_head", "ahead"}

ForkchoiceUpdated(state) == [kind |-> "ForkchoiceUpdated", state |-> state]

NewPayload(block) == [kind |-> "NewPayload", block |-> block]

Messages == {ForkchoiceUpdated(state) : state \in ForkchoiceStates} \cup {NewPayload(1)}

\* What a pipeline future returns when it is polled: Poll::Pending, or
\* Poll::Ready with the pipeline and a result.
PipelineOutputs == {None, Some("Ok"), Some("Err")}

\* A Pipeline, with the number of times it has been run.
Pipeline(runs) == [runs |-> runs]

\* pipeline.run_as_fut(db): the future of one more run of the pipeline.
run_as_fut(pipeline) == [pipeline |-> Pipeline(pipeline.runs + 1)]

Idle(pipeline) == [state |-> "Idle", pipeline |-> pipeline]

Running(fut) == [state |-> "Running", fut |-> fut]

\* next_pipeline_state that starts the pipeline only from Idle.
next_pipeline_state_parking(current_pipeline_state, output, sync_needed) ==
    IF current_pipeline_state.state = "Running"
    THEN IF output # None
         THEN Idle(current_pipeline_state.fut.pipeline)
         ELSE Running(current_pipeline_state.fut)
    ELSE IF sync_needed THEN Running(run_as_fut(current_pipeline_state.pipeline))
         ELSE Idle(current_pipeline_state.pipeline)

\* next_pipeline_state, with output what fut.poll_unpin(cx) returns.
next_pipeline_state(current_pipeline_state, output, sync_needed) ==
    IF current_pipeline_state.state = "Running"
    THEN IF output # None
         THEN IF sync_needed
              THEN Running(run_as_fut(current_pipeline_state.fut.pipeline))
              ELSE Idle(current_pipeline_state.fut.pipeline)
         ELSE Running(current_pipeline_state.fut)
    ELSE IF sync_needed
         THEN Running(run_as_fut(current_pipeline_state.pipeline))
         ELSE Idle(current_pipeline_state.pipeline)

\* let pipeline_sync_needed = false;
pipeline_sync_needed == FALSE

\* while let Poll::Ready(Some(msg)) = message_rx.poll_next_unpin(cx): the
\* fork choice after the messages of the channel have been taken.
RECURSIVE drain(_, _)
drain(forkchoice_state, messages) ==
    IF messages = << >> THEN forkchoice_state
    ELSE drain(IF Head(messages).kind = "ForkchoiceUpdated"
               THEN Some(Head(messages).state)
               ELSE forkchoice_state,
               Tail(messages))

\* poll that goes on to the pipeline without a fork choice.
poll_without_forkchoice(this, output) ==
    [this |-> [this EXCEPT !.message_rx = << >>,
                           !.forkchoice_state = drain(@, this.message_rx),
                           !.pipeline_state =
                               next_pipeline_state(@, output, pipeline_sync_needed)],
     fut_polled |-> this.pipeline_state.state = "Running",
     advanced |-> 1, undrained |-> 0,
     result |-> "Pending"]

\* poll that advances the pipeline before it drains the channel.
poll_advancing_first(this, output) ==
    LET advances == this.forkchoice_state # None
    IN  [this |-> [this EXCEPT !.message_rx = << >>,
                               !.forkchoice_state = drain(@, this.message_rx),
                               !.pipeline_state =
                                   IF advances
                                   THEN next_pipeline_state(@, output, pipeline_sync_needed)
                                   ELSE @],
         fut_polled |-> advances /\ this.pipeline_state.state = "Running",
         advanced |-> IF advances THEN 1 ELSE 0,
         undrained |-> IF advances THEN Len(this.message_rx) ELSE 0,
         result |-> "Pending"]

\* this.pipeline_state after take(): the Option is None.
NoPipelineState == [state |-> "None"]

\* poll that does not put the next pipeline state back.
poll_leaving_empty(this, output) ==
    LET drained == [this EXCEPT !.message_rx = << >>,
                                !.forkchoice_state = drain(@, this.message_rx)]
    IN  IF drained.forkchoice_state = None
        THEN [this |-> drained, fut_polled |-> FALSE,
              advanced |-> 0, undrained |-> 0, result |-> "Pending"]
        ELSE IF drained.pipeline_state = NoPipelineState
        THEN [this |-> drained, fut_polled |-> FALSE,
              advanced |-> 0, undrained |-> 0, result |-> "Panic"]
        ELSE [this |-> [drained EXCEPT !.pipeline_state = NoPipelineState],
              fut_polled |-> drained.pipeline_state.state = "Running",
              advanced |-> 1, undrained |-> Len(drained.message_rx),
              result |-> "Pending"]

\* Future::poll of SyncController, with output what the pipeline future
\* returns if it is polled. advanced counts the calls of next_pipeline_state
\* and undrained the messages in the channel at that call. The pipeline state
\* is taken out of this.pipeline_state, which panics when there is none, and
\* the next one is put back.
poll(this, output) ==
    LET drained == [this EXCEPT !.message_rx = << >>,
                                !.forkchoice_state = drain(@, this.message_rx)]
    IN  IF drained.forkchoice_state = None
        THEN [this |-> drained, fut_polled |-> FALSE,
              advanced |-> 0, undrained |-> 0, result |-> "Pending"]
        ELSE IF drained.pipeline_state = NoPipelineState
        THEN [this |-> drained, fut_polled |-> FALSE,
              advanced |-> 0, undrained |-> 0, result |-> "Panic"]
        ELSE LET current_pipeline_state == drained.pipeline_state
                 taken == [drained EXCEPT !.pipeline_state = NoPipelineState]
             IN  [this |-> [taken EXCEPT !.pipeline_state =
                               next_pipeline_state(current_pipeline_state, output,
                                                   pipeline_sync_needed)],
                  fut_polled |-> current_pipeline_state.state = "Running",
                  advanced |-> 1, undrained |-> Len(taken.message_rx),
                  result |-> "Pending"]

\* The pipeline states a SyncController may be built with.
InitialPipelineStates == {Idle(Pipeline(0)), Running(run_as_fut(Pipeline(0)))}

\* A SyncController with an empty channel and no fork choice.
NewController(pipeline_state) ==
    [phase |-> "run",
     this |-> [message_rx |-> << >>, forkchoice_state |-> None,
               pipeline_state |-> pipeline_state],
     sent |-> 0,
     last |-> [op |-> "new", pre |-> pipeline_state, output |-> None,
               sync_needed |-> FALSE, drained |-> << >>, fut_polled |-> FALSE,
               pre_forkchoice |-> None, advanced |-> 0, undrained |-> 0,
               result |-> "Pending"]]

\* A message is sent on the channel of the controller.
Send(msg) ==
    /\ ctl.phase = "run"
    /\ ctl.sent < MaxMessages
    /\ ctl' = [ctl EXCEPT !.this.message_rx = Append(@, msg), !.sent = @ + 1]
    /\ UNCHANGED <<ps, last, finish_calls, extended, db, net>>

\* A wake of the controller: one call of poll.
Poll(output) ==
    /\ ctl.phase = "run"
    /\ LET out == poll(ctl.this, output)
       IN  ctl' = [ctl EXCEPT !.this = out.this,
                              !.last = [op |-> "poll", pre |-> ctl.this.pipeline_state,
                                        output |-> output,
                                        sync_needed |-> pipeline_sync_needed,
                                        drained |-> ctl.this.message_rx,
                                        fut_polled |-> out.fut_polled,
                                        pre_forkchoice |-> ctl.this.forkchoice_state,
                                        advanced |-> out.advanced,
                                        undrained |-> out.undrained,
                                        result |-> out.result]]
    /\ UNCHANGED <<ps, last, finish_calls, extended, db, net>>

InitCtl ==
    /\ InitWith({"a"}) /\ db = NoDb /\ net = NoNet
    /\ \E pipeline_state \in InitialPipelineStates : ctl = NewController(pipeline_state)

NextCtl ==
    \/ \E msg \in Messages : Send(msg)
    \/ \E output \in PipelineOutputs : Poll(output)

SpecCtl == InitCtl /\ [][NextCtl]_vars

\* Every wake comes, and a pipeline future that is polled again and again is
\* ready at some poll.
SpecCtlFair ==
    /\ SpecCtl
    /\ WF_vars(\E output \in PipelineOutputs : Poll(output))
    /\ SF_vars(\E output \in PipelineOutputs \ {None} : Poll(output))

\* One call of next_pipeline_state on the pipeline state, for either value of
\* sync_needed.
NextPipelineState(output, sync_needed) ==
    /\ ctl.phase = "run"
    /\ LET current_pipeline_state == ctl.this.pipeline_state
           next == next_pipeline_state(current_pipeline_state, output, sync_needed)
       IN  /\ next.state = "Running" => next.fut.pipeline.runs <= MaxRuns
           /\ ctl' = [ctl EXCEPT !.this.pipeline_state = next,
                                 !.last = [op |-> "next_pipeline_state",
                                           pre |-> current_pipeline_state,
                                           output |-> output, sync_needed |-> sync_needed,
                                           drained |-> << >>,
                                           fut_polled |-> current_pipeline_state.state = "Running",
                                           pre_forkchoice |-> ctl.this.forkchoice_state,
                                           advanced |-> 1, undrained |-> 0,
                                           result |-> "Pending"]]
    /\ UNCHANGED <<ps, last, finish_calls, extended, db, net>>

NextStep ==
    \E output \in PipelineOutputs, sync_needed \in BOOLEAN :
        NextPipelineState(output, sync_needed)

SpecStep == InitCtl /\ [][NextStep]_vars

(***************************************************************************)
(* Properties                                                              *)
(***************************************************************************)

Names == DOMAIN ps

Post == ps[last.self]

Mutators ==
    {"create_account", "change_account", "destroy_account", "change_storage",
     "add_bytecode", "add_receipt"}

RECURSIVE MaxId(_)
MaxId(changes) ==
    IF Len(changes) = 1 THEN changes[1].id
    ELSE LET rest == MaxId(Tail(changes))
         IN  IF changes[1].id >= rest THEN changes[1].id ELSE rest

\* C1: after a.extend(b), a.transitions_count() is the sum of the two counts
\* before the call (also when b's last transition holds no change, or b holds
\* no change at all).
C1_ExtendAddsCounts ==
    last.op = "extend" =>
        transitions_count(Post) =
            transitions_count(last.pre_self) + transitions_count(last.pre_other)

\* C2: on a journal built without extend, transitions_count() is the number of
\* finish_transition calls made so far: finish_transition raises it by one and
\* every other mutator leaves it unchanged.
C2_CountIsFinishCalls ==
    /\ \A j \in Names :
          ~extended[j] => transitions_count(ps[j]) = finish_calls[j]
    /\ last.op = "finish_transition" =>
          transitions_count(Post) = transitions_count(last.pre_self) + 1
    /\ last.op \in Mutators =>
          transitions_count(Post) = transitions_count(last.pre_self)

C2_Witness ==
    /\ last.op = "finish_transition"
    /\ ~extended[last.self]
    /\ finish_calls[last.self] = 2
    /\ Post.changes # << >>

\* C3 as stated: in every reachable state transitions_count() is the largest
\* transition id of the changes plus one, and zero when there are no changes.
C3_CountIsMaxIdPlusOne ==
    \A j \in Names :
        transitions_count(ps[j]) =
            IF ps[j].changes = << >> THEN 0 ELSE MaxId(ps[j].changes) + 1

\* C3 as amended: transitions_count() is at least the largest transition id of
\* the changes, and it is that id plus one right after the finish_transition
\* that closes a transition in which a change was recorded.
C3_CountBoundsMaxId ==
    /\ \A j \in Names :
          ps[j].changes # << >> => MaxId(ps[j].changes) <= transitions_count(ps[j])
    /\ ( /\ last.op = "finish_transition"
         /\ last.pre_self.changes # << >>
         /\ MaxId(last.pre_self.changes) = last.pre_self.current_transition_id )
       => transitions_count(Post) = MaxId(Post.changes) + 1

C3_Witness ==
    /\ last.op = "finish_transition"
    /\ last.pre_self.changes # << >>
    /\ last.pre_self.current_transition_id >= 1
    /\ MaxId(last.pre_self.changes) = last.pre_self.current_transition_id

\* The update table of the caches: one change applied to (accounts, storage).
TableStep(caches, change) ==
    LET address == change.address
        before == IF address \in DOMAIN caches.storage
                  THEN caches.storage[address]
                  ELSE [wiped |-> FALSE, storage |-> << >>]
    IN  CASE change.kind \in {"AccountCreated"} ->
               [caches EXCEPT !.accounts = (address :> <<change.account>>) @@ @]
          [] change.kind = "AccountChanged" ->
               [caches EXCEPT !.accounts = (address :> <<change.new>>) @@ @]
          [] change.kind = "AccountDestroyed" ->
               [caches EXCEPT !.accounts = (address :> << >>) @@ @]
          [] change.kind = "StorageChanged" ->
               [caches EXCEPT !.storage =
                   (address :>
                      [wiped |-> FALSE,
                       storage |->
                          [s \in DOMAIN change.changeset |-> change.changeset[s][2]]
                              @@ before.storage]) @@ @]
          [] change.kind = "StorageWiped" ->
               [caches EXCEPT !.storage =
                   (address :> [wiped |-> TRUE, storage |-> before.storage]) @@ @]

RECURSIVE TableFold(_, _)
TableFold(caches, changes) ==
    IF changes = << >> THEN caches
    ELSE TableFold(TableStep(caches, Head(changes)), Tail(changes))

\* C4: the caches accounts and storage are the left-to-right fold of changes
\* under the update table.
C4_FoldConsistency ==
    \A j \in Names :
        LET folded == TableFold([accounts |-> << >>, storage |-> << >>], ps[j].changes)
        IN  /\ ps[j].accounts = folded.accounts
            /\ ps[j].storage = folded.storage

C4_Witness ==
    \E j \in Names :
        /\ extended[j]
        /\ \E address \in DOMAIN ps[j].storage :
              /\ ps[j].storage[address].wiped
              /\ ps[j].storage[address].storage # << >>
              /\ address \in DOMAIN ps[j].accounts
              /\ ps[j].accounts[address] = None

\* C5: every AccountDestroyed in changes is immediately followed by a
\* StorageWiped with the same transition id and address.
C5_DestroyPairsWipe ==
    \A j \in Names :
        \A k \in 1..Len(ps[j].changes) :
            ps[j].changes[k].kind = "AccountDestroyed" =>
                /\ k < Len(ps[j].changes)
                /\ ps[j].changes[k + 1].kind = "StorageWiped"
                /\ ps[j].changes[k + 1].id = ps[j].changes[k].id
                /\ ps[j].changes[k + 1].address = ps[j].changes[k].address

C5_Witness ==
    /\ last.op = "extend"
    /\ last.pre_self.current_transition_id >= 1
    /\ \E k \in 1..Len(last.pre_other.changes) :
          last.pre_other.changes[k].kind = "AccountDestroyed"

\* C6: once a hash is in the bytecode map its code never changes: neither a
\* second add_bytecode nor an extend with a journal holding the hash alters it.
C6_BytecodeFirstWriteWins ==
    last.op \in {"add_bytecode", "extend"} =>
        \A h \in DOMAIN last.pre_self.bytecode :
            /\ h \in DOMAIN Post.bytecode
            /\ Post.bytecode[h] = last.pre_self.bytecode[h]

\* C7: every change has a transition id at most current_transition_id, and the
\* ids along changes never decrease.
C7_IdsBoundedAndOrdered ==
    \A j \in Names :
        /\ \A k \in 1..Len(ps[j].changes) :
              ps[j].changes[k].id <= ps[j].current_transition_id
        /\ \A k \in 1..(Len(ps[j].changes) - 1) :
              ps[j].changes[k].id <= ps[j].changes[k + 1].id

C7_Witness ==
    \E j \in Names :
        /\ extended[j]
        /\ Len(ps[j].changes) >= 2
        /\ ps[j].changes[1].id < ps[j].changes[Len(ps[j].changes)].id

\* C8: with at most one receipt per transition the receipts never outnumber the
\* transitions at a transition boundary, and extend keeps that for two journals
\* that each satisfy it.
C8_ReceiptsBounded ==
    /\ ( /\ last.op = "finish_transition"
         /\ Len(last.pre_self.receipts) <= last.pre_self.current_transition_id + 1 )
       => Len(Post.receipts) <= Post.current_transition_id
    /\ ( /\ last.op = "extend"
         /\ Len(last.pre_self.receipts) <= last.pre_self.current_transition_id
         /\ Len(last.pre_other.receipts) <= last.pre_other.current_transition_id )
       => Len(Post.receipts) <= Post.current_transition_id

\* C9: a.extend(b) keeps a's changes and receipts in place and appends b's
\* changes in b's order, each with its id raised by a's current_transition_id
\* before the call; no earlier change of a has a larger id than one taken from b.
C9_ExtendAppendsRebased ==
    last.op = "extend" =>
        LET a == last.pre_self
            b == last.pre_other
            n == Len(a.changes)
        IN  /\ Len(Post.changes) = n + Len(b.changes)
            /\ \A k \in 1..n : Post.changes[k] = a.changes[k]
            /\ \A k \in 1..Len(b.changes) :
                  Post.changes[n + k] =
                      [b.changes[k] EXCEPT !.id = a.current_transition_id + @]
            /\ Len(Post.receipts) >= Len(a.receipts)
            /\ \A k \in 1..Len(a.receipts) : Post.receipts[k] = a.receipts[k]
            /\ \A k \in 1..n : \A m \in (n + 1)..Len(Post.changes) :
                  Post.changes[k].id <= Post.changes[m].id

C9_Witness ==
    /\ last.op = "extend"
    /\ last.pre_self.changes # << >>
    /\ last.pre_other.changes # << >>
    /\ last.pre_self.current_transition_id >= 1

\* C10: a.extend(b) then a.extend(c) yields the same journal as b.extend(c)
\* then a.extend(b).
C10_ExtendAssociative ==
    extend(extend(ps["a"], ps["b"]), ps["c"]) = extend(ps["a"], extend(ps["b"], ps["c"]))

\* The address of the last change of the journal the last call was made on.
LastAddress == Post.changes[Len(Post.changes)].address

SlotsOf(storage, address) ==
    IF address \in DOMAIN storage THEN storage[address].storage ELSE << >>

\* C11 as stated: destroy_account sets accounts[address] to None and
\* storage[address].wiped to true, and storage[address].storage then holds none
\* of the slots written before the destroy.
C11_DestroyEmptiesStorage ==
    last.op = "destroy_account" =>
        /\ Post.accounts[LastAddress] = None
        /\ Post.storage[LastAddress].wiped
        /\ \A slot \in DOMAIN SlotsOf(last.pre_self.storage, LastAddress) :
              slot \notin DOMAIN Post.storage[LastAddress].storage

\* C11 as amended: destroy_account sets accounts[address] to None and
\* storage[address].wiped to true, and leaves storage[address].storage as it
\* was: the slots written before the destroy stay in the map.
C11_DestroyKeepsStorage ==
    last.op = "destroy_account" =>
        /\ LastAddress \in DOMAIN Post.accounts
        /\ Post.accounts[LastAddress] = None
        /\ LastAddress \in DOMAIN Post.storage
        /\ Post.storage[LastAddress].wiped
        /\ Post.storage[LastAddress].storage =
              SlotsOf(last.pre_self.storage, LastAddress)

C11_Witness ==
    /\ last.op = "destroy_account"
    /\ SlotsOf(last.pre_self.storage, LastAddress) # << >>
    /\ ~last.pre_self.storage[LastAddress].wiped

(***************************************************************************)
(* Properties of write_to_db                                               *)
(***************************************************************************)

\* write_to_db has returned; Journal is the journal it was called on.
Written == db.phase = "written" /\ last.op = "write_to_db"

Succeeded == Written /\ db.after.error = "none"

Journal == last.pre_self

BeforeTable(table) == db.before.tables[table]

AfterTable(table) == db.after.tables[table]

RowsOf(rows) == {rows[i] : i \in DOMAIN rows}

ChangesOf(self, kinds) ==
    {i \in DOMAIN self.changes : self.changes[i].kind \in kinds}

AccountKinds == {"AccountCreated", "AccountChanged", "AccountDestroyed"}

\* The AccountChangeSet row of an account-class change.
AccountRow(change) ==
    [key |-> db.first + change.id,
     value |-> [address |-> change.address,
                info |-> IF change.kind = "AccountCreated" THEN None
                         ELSE Some(change.old)]]

\* C12: after a successful write_to_db(tx, F), AccountChangeSet holds for every
\* account-class change with id i and address a a row under F+i with that
\* address, whose info is Some(old) for AccountChanged and AccountDestroyed and
\* None for AccountCreated; the table holds its earlier rows and no other row,
\* one row added per account-class change.
C12_AccountChangeSetRows ==
    Succeeded =>
        /\ RowsOf(AfterTable("AccountChangeSet")) =
               RowsOf(BeforeTable("AccountChangeSet")) \cup
               {AccountRow(Journal.changes[i]) : i \in ChangesOf(Journal, AccountKinds)}
        /\ Len(AfterTable("AccountChangeSet")) =
               Len(BeforeTable("AccountChangeSet"))
                   + Cardinality(ChangesOf(Journal, AccountKinds))

C12_Witness ==
    /\ Succeeded
    /\ BeforeTable("AccountChangeSet") # << >>
    /\ ChangesOf(Journal, {"AccountCreated"}) # {}
    /\ ChangesOf(Journal, {"AccountChanged", "AccountDestroyed"}) # {}
    /\ ChangesOf(Journal, {"StorageChanged", "StorageWiped"}) # {}

\* The entries a table holds under a key.
EntriesUnder(rows, key) == {row.value : row \in {r \in RowsOf(rows) : r.key = key}}

\* The journal of the zero write: change_storage(address, {7 -> (42, 0)}) alone.
ZeroWrite(address) ==
    /\ Journal.changes = <<StorageChanged(0, address, (7 :> <<42, 0>>))>>
    /\ db.first = 0
    /\ EntriesUnder(BeforeTable("StorageChangeSet"), <<0, address>>) = {}

\* C13: after a successful write_to_db(tx, F), StorageChangeSet holds under
\* (F+i, a) the entry {key: slot, value: old} for every (slot, (old, new)) of
\* every StorageChanged change with id i and address a; the zero write
\* change_storage(A, {7 -> (42, 0)}) written with F = 0 leaves exactly the one
\* entry {7, 42} under (0, A).
C13_StorageChangedRows ==
    Succeeded =>
        /\ \A i \in ChangesOf(Journal, {"StorageChanged"}) :
              LET change == Journal.changes[i]
              IN  \A slot \in DOMAIN change.changeset :
                     StorageEntry(slot, change.changeset[slot][1]) \in
                         EntriesUnder(AfterTable("StorageChangeSet"),
                                      <<db.first + change.id, change.address>>)
        /\ \A a \in Addresses :
              ZeroWrite(a) =>
                  EntriesUnder(AfterTable("StorageChangeSet"), <<0, a>>) =
                      {StorageEntry(7, 42)}

C13_Witness ==
    /\ Succeeded
    /\ \E a \in Addresses :
          /\ ZeroWrite(a)
          /\ BeforeTable("StorageChangeSet") # << >>

\* The entries PlainStorageState held for an address when write_to_db started.
EntriesBefore(a) == {row.value : row \in {r \in BeforeTable("PlainStorageState") : r.key = a}}

\* C14: after a successful write_to_db(tx, F) StorageChangeSet holds, under
\* (F+i, a) for every StorageWiped change with id i and address a, every entry
\* PlainStorageState held for a when write_to_db started, the one of the
\* smallest key included.
C14_WipeCapturesEveryEntry ==
    Succeeded =>
        \A i \in ChangesOf(Journal, {"StorageWiped"}) :
            LET change == Journal.changes[i]
            IN  EntriesBefore(change.address) \subseteq
                    EntriesUnder(AfterTable("StorageChangeSet"),
                                 <<db.first + change.id, change.address>>)

\* The slots PlainStorageState held for an address when write_to_db started.
SlotsBefore(a) ==
    [slot \in {entry.key : entry \in EntriesBefore(a)} |->
        (CHOOSE entry \in EntriesBefore(a) : entry.key = slot).value]

\* The slots of an address after the storage changes of a sequence of changes.
RECURSIVE SlotsAfter(_, _, _)
SlotsAfter(slots, changes, a) ==
    IF changes = << >> THEN slots
    ELSE LET change == Head(changes)
             next == IF change.address # a THEN slots
                     ELSE IF change.kind = "StorageWiped" THEN EmptyMap
                     ELSE IF change.kind = "StorageChanged"
                          THEN MapExtend(slots, [slot \in DOMAIN change.changeset |->
                                                    change.changeset[slot][2]])
                          ELSE slots
         IN  SlotsAfter(next, Tail(changes), a)

\* The changes of the journal before position i that belong to smaller ids.
EarlierTransitions(i) ==
    SelectSeq(SubSeq(Journal.changes, 1, i - 1),
              LAMBDA change : change.id < Journal.changes[i].id)

\* C15: after a successful write_to_db(tx, F) StorageChangeSet holds, under
\* (F+i, a) for every StorageWiped change with id i and address a, every slot of
\* a that was non-zero just before transition i with the value it then had:
\* the slots of the database as changed by the journal's storage changes of
\* smaller ids.
C15_WipeReplayable ==
    Succeeded =>
        \A i \in ChangesOf(Journal, {"StorageWiped"}) :
            LET change == Journal.changes[i]
                slots == SlotsAfter(SlotsBefore(change.address), EarlierTransitions(i),
                                    change.address)
            IN  \A slot \in DOMAIN slots :
                    slots[slot] # 0 =>
                        StorageEntry(slot, slots[slot]) \in
                            EntriesUnder(AfterTable("StorageChangeSet"),
                                         <<db.first + change.id, change.address>>)

\* The entries PlainStorageState holds for an address after write_to_db.
EntriesAfter(a) == {row.value : row \in {r \in AfterTable("PlainStorageState") : r.key = a}}

\* The addresses of the journal's storage cache that are wiped, or are not.
CachedAddresses(wiped) ==
    {a \in DOMAIN Journal.storage : Journal.storage[a].wiped = wiped}

\* The entries of the non-zero slots of the cached storage of an address.
NonZeroCached(a) ==
    {StorageEntry(slot, Journal.storage[a].storage[slot]) :
        slot \in {k \in DOMAIN Journal.storage[a].storage :
                     Journal.storage[a].storage[k] # 0}}

\* C16 as stated: after a successful write_to_db, PlainStorageState holds for an
\* address whose cached storage is wiped exactly the non-zero cached slots: the
\* existing entries are deleted and the cached slots are still written.
C16_WipedStillWritesCache ==
    Succeeded => \A a \in CachedAddresses(TRUE) : EntriesAfter(a) = NonZeroCached(a)

\* C16 as amended: after a successful write_to_db, PlainStorageState holds no
\* entry for an address whose cached storage is wiped: the existing entries are
\* deleted and none of the cached slots is written.
C16_WipedWritesNothing ==
    Succeeded => \A a \in CachedAddresses(TRUE) : EntriesAfter(a) = {}

C16_Witness ==
    /\ Succeeded
    /\ \E a \in CachedAddresses(TRUE) :
          /\ NonZeroCached(a) # {}
          /\ EntriesBefore(a) # {}

ZeroEntries(rows) == {row \in rows : row.value.value = 0}

\* C17: if PlainStorageState holds no entry of value 0 before write_to_db, it
\* holds none after write_to_db has succeeded, whatever the journal and the
\* first transition id.
C17_NoZeroEntries ==
    (Succeeded /\ ZeroEntries(BeforeTable("PlainStorageState")) = {})
        => ZeroEntries(AfterTable("PlainStorageState")) = {}

C17_Witness ==
    /\ Succeeded
    /\ ZeroEntries(BeforeTable("PlainStorageState")) = {}
    /\ \E a \in CachedAddresses(FALSE) :
          \E slot \in DOMAIN Journal.storage[a].storage :
              /\ Journal.storage[a].storage[slot] = 0
              /\ slot \in DOMAIN SlotsBefore(a)

\* The row of an address in a table without duplicates: Some(row) or None.
RowOf(table, a) == IF a \in DOMAIN table THEN Some(table[a]) ELSE None

\* C18: after a successful write_to_db, PlainAccountState holds for every
\* address of the journal's accounts cache the cached account when the cache
\* holds Some(account) and no row when it holds None; the rows of the addresses
\* that are not in the cache are as they were.
C18_AccountRoundTrip ==
    Succeeded =>
        \A a \in Addresses :
            RowOf(AfterTable("PlainAccountState"), a) =
                IF a \in DOMAIN Journal.accounts
                THEN Journal.accounts[a]
                ELSE RowOf(BeforeTable("PlainAccountState"), a)

C18_Witness ==
    /\ Succeeded
    /\ \E a \in DOMAIN Journal.accounts :
          /\ Journal.accounts[a] = None
          /\ RowOf(BeforeTable("PlainAccountState"), a) # None
    /\ \E a \in DOMAIN Journal.accounts :
          /\ Journal.accounts[a] # None
          /\ RowOf(BeforeTable("PlainAccountState"), a) # Journal.accounts[a]

\* The entries of a set that belong to one slot.
AtSlot(entries, slot) == {entry \in entries : entry.key = slot}

Slots == UNION {DOMAIN changeset : changeset \in DbChangesets}
             \cup {row.value.key : row \in PopulatedDb.PlainStorageState}

\* C19: after a successful write_to_db, for every address whose cached storage
\* is not wiped and every cached slot, PlainStorageState holds exactly one
\* entry of the address and slot, with the cached value, when that value is not
\* zero, and none when it is zero; the entries of the address for the slots
\* that are not cached, and the entries of the addresses that are not cached,
\* are as they were.
C19_StorageRoundTrip ==
    Succeeded =>
        \A a \in Addresses :
            IF a \in CachedAddresses(FALSE)
            THEN \A slot \in Slots :
                    AtSlot(EntriesAfter(a), slot) =
                        IF slot \in DOMAIN Journal.storage[a].storage
                        THEN AtSlot(NonZeroCached(a), slot)
                        ELSE AtSlot(EntriesBefore(a), slot)
            ELSE a \notin DOMAIN Journal.storage => EntriesAfter(a) = EntriesBefore(a)

C19_Witness ==
    /\ Succeeded
    /\ \E a \in CachedAddresses(FALSE) :
          /\ \E slot \in DOMAIN Journal.storage[a].storage :
                /\ Journal.storage[a].storage[slot] # 0
                /\ AtSlot(EntriesBefore(a), slot) # {}
                /\ AtSlot(EntriesBefore(a), slot) # AtSlot(NonZeroCached(a), slot)
          /\ \E slot \in Slots \ DOMAIN Journal.storage[a].storage :
                AtSlot(EntriesBefore(a), slot) # {}
    /\ \E a \in Addresses \ DOMAIN Journal.storage : EntriesBefore(a) # {}

PlainTables == {"PlainStorageState", "PlainAccountState", "Bytecodes"}

\* C20: when a cursor operation of write_to_db returns an error, write_to_db
\* returns that error and calls no cursor operation after it: an injected
\* failure is the last operation made, an append out of key order leaves the
\* tables of the later steps as they were, and write_to_db returns success only
\* when no operation has failed.
C20_FirstErrorAborts ==
    Written =>
        /\ db.after.error = "Injected" => db.after.ops = db.after.fail_at
        /\ db.after.error # "Injected" =>
              (db.after.fail_at = 0 \/ db.after.ops < db.after.fail_at)
        /\ db.after.error = "KeyMismatch" =>
              \A table \in PlainTables : AfterTable(table) = BeforeTable(table)
        /\ db.after.fail_at = 1 => db.after.tables = db.before.tables

C20_Witness ==
    /\ Written
    /\ db.after.error = "Injected"
    /\ db.after.fail_at > 1
    /\ AfterTable("StorageChangeSet") # BeforeTable("StorageChangeSet")
    /\ Journal.bytecode # EmptyMap
    /\ AfterTable("Bytecodes") = BeforeTable("Bytecodes")

(***************************************************************************)
(* Properties of MeteredStream                                             *)
(***************************************************************************)

\* The last poll that has returned, the meter of its stream before it and now.
Polled == net.last

MeterBefore == Polled.pre_meters[net.meter_of[Polled.stream]]

MeterNow == net.meters[net.meter_of[Polled.stream]]

Returned_Ok(op) == net.phase = "io" /\ Polled.op = op /\ Polled.result.poll = "Ok"

Counted(op) == net.phase = "io" /\ Polled.op = op /\ Polled.inner.poll = "Ok"

Saturated(previous, n) == previous + Min(n, u64_max_value - previous)

\* C22: the counters saturate at the largest value: an increment by n from
\* prev yields prev + min(n, max - prev), so a counter is never smaller than it
\* was before a read or a write.
C22_CountersSaturate ==
    /\ Counted("poll_read") =>
          /\ total_ingress(MeterNow) = Saturated(total_ingress(MeterBefore), Polled.inner.n)
          /\ total_ingress(MeterNow) >= total_ingress(MeterBefore)
    /\ Counted("poll_write") =>
          /\ total_egress(MeterNow) = Saturated(total_egress(MeterBefore), Polled.inner.n)
          /\ total_egress(MeterNow) >= total_egress(MeterBefore)

\* A read or a write whose inner stream has failed or was not ready.
NotTransferred ==
    /\ net.phase = "io"
    /\ Polled.op \in {"poll_read", "poll_write"}
    /\ Polled.inner.poll \in {"Pending", "Err"}

\* C23: a read or a write whose inner stream returns an error or Pending leaves
\* ingress and egress as they were, publishes no reading, and returns the error
\* or Pending as it is.
C23_FailedIoNotCounted ==
    NotTransferred =>
        /\ net.meters = Polled.pre_meters
        /\ net.metrics = Polled.pre_metrics
        /\ Polled.result = Polled.inner

C23_Witness ==
    /\ NotTransferred
    /\ Polled.op = "poll_read"
    /\ Polled.inner = Err
    /\ net.metrics[Polled.stream] # None
    /\ net.metrics[Polled.stream][1].readings > 0
    /\ total_ingress(MeterBefore) > 0

PassedThrough == net.phase = "io" /\ Polled.op \in {"poll_flush", "poll_shutdown"}

\* C24: poll_flush and poll_shutdown return what the inner stream returns and
\* leave ingress, egress and the metrics as they were.
C24_FlushShutdownPassThrough ==
    PassedThrough =>
        /\ Polled.result = Polled.inner
        /\ net.meters = Polled.pre_meters
        /\ net.metrics = Polled.pre_metrics

C24_Witness ==
    /\ PassedThrough
    /\ Polled.op = "poll_flush"
    /\ Polled.inner = Pending
    /\ net.metrics[Polled.stream] # None
    /\ total_egress(MeterBefore) > 0

StreamsOn(meter) == {s \in Streams : net.meter_of[s] = meter}

RECURSIVE SumOf(_, _)
SumOf(streams, direction) ==
    IF streams = {} THEN 0
    ELSE LET s == CHOOSE x \in streams : TRUE
         IN  net.transferred[s][direction] + SumOf(streams \ {s}, direction)

Quiescent ==
    /\ net.phase = "io"
    /\ \A s \in Streams : net.pipe[s] = 0 /\ net.pending[s] = None

\* C26: for two metered streams at the two ends of one duplex stream, each with
\* its own meter, once every byte written has been read the egress of each end
\* equals the ingress of the other.
C26_Conservation ==
    Quiescent =>
        \A s \in Streams :
            total_egress(net.meters[net.meter_of[s]]) =
                total_ingress(net.meters[net.meter_of[net.peer[s]]])

C26_Witness ==
    /\ Quiescent
    /\ \A s \in Streams : total_egress(net.meters[net.meter_of[s]]) > 0

(***************************************************************************)
(* Properties of SyncController                                            *)
(***************************************************************************)

Controller == ctl.this

Woken == ctl.phase = "run" /\ ctl.last.op = "poll"

\* C27: as long as no ForkchoiceUpdated message has been received, a poll of
\* the controller returns Pending and leaves the pipeline state as it was: an
\* Idle pipeline is not started and a Running future is not polled, however
\* many NewPayload messages the poll has taken from the channel.
C27_ParksWithoutForkchoice ==
    (Woken /\ Controller.forkchoice_state = None) =>
        /\ ctl.last.result = "Pending"
        /\ Controller.pipeline_state = ctl.last.pre
        /\ ~ctl.last.fut_polled

C27_Witness ==
    /\ Woken
    /\ Controller.forkchoice_state = None
    /\ Len(ctl.last.drained) > 1
    /\ ctl.last.pre.state = "Running"
    /\ ctl.last.output # None

Stepped == ctl.phase = "run" /\ ctl.last.op = "next_pipeline_state"

\* The pipeline a pipeline state holds: its own, or the one its future runs.
PipelineOf(state) ==
    IF state.state = "Idle" THEN state.pipeline ELSE state.fut.pipeline

\* A Running state entered by this step: a new run of the pipeline held before.
FreshRunning(before, after) ==
    /\ after.state = "Running"
    /\ PipelineOf(after).runs = PipelineOf(before).runs + 1

\* C28: one step of the pipeline state machine. From Idle the next state is
\* Running when sync_needed is true and the same Idle otherwise; from Running
\* with the future not ready it is Running with the same future; from Running
\* with the future completed the pipeline is handed back and the next state is
\* Idle when sync_needed is false and a fresh Running when it is true, whether
\* the result of the pipeline was success or error.
C28_NextPipelineState ==
    Stepped =>
        LET before == ctl.last.pre
            after == Controller.pipeline_state
        IN  /\ (before.state = "Idle" /\ ctl.last.sync_needed) =>
                   FreshRunning(before, after)
            /\ (before.state = "Idle" /\ ~ctl.last.sync_needed) => after = before
            /\ (before.state = "Running" /\ ctl.last.output = None) => after = before
            /\ (before.state = "Running" /\ ctl.last.output # None
                    /\ ~ctl.last.sync_needed) =>
                   after = [state |-> "Idle", pipeline |-> before.fut.pipeline]
            /\ (before.state = "Running" /\ ctl.last.output # None
                    /\ ctl.last.sync_needed) =>
                   FreshRunning(before, after)

C28_Witness ==
    /\ Stepped
    /\ ctl.last.pre.state = "Running"
    /\ ctl.last.output = Some("Err")
    /\ ctl.last.sync_needed
    /\ Controller.pipeline_state.state = "Running"
    /\ PipelineOf(ctl.last.pre).runs > 1

\* Sync is needed when the fork-choice the controller holds names a head the
\* node has not reached.
SyncNeeded == ctl.phase = "run" /\ Controller.forkchoice_state = Some("ahead")

ForkchoiceReceived == ctl.phase = "run" /\ Controller.forkchoice_state # None

PipelineIdle == ctl.phase = "run" /\ Controller.pipeline_state.state = "Idle"

PipelineRunning == ctl.phase = "run" /\ Controller.pipeline_state.state = "Running"

\* An idle pipeline is started while sync is needed.
DrivenToRunning == (SyncNeeded /\ PipelineIdle) ~> (PipelineRunning \/ ~SyncNeeded)

\* A running pipeline is parked once sync is not needed.
DrivenToIdle == (ForkchoiceReceived /\ ~SyncNeeded /\ PipelineRunning) ~> PipelineIdle

\* C29: liveness of the controller. Once a fork-choice has been received and
\* sync is needed, repeated wakes eventually move the pipeline from Idle to
\* Running, and a Running pipeline whose future completes is eventually brought
\* back to Idle when sync is no longer needed.
C29_Liveness == DrivenToRunning /\ DrivenToIdle

(***************************************************************************)
(* Properties of the order of the appends of write_to_db.                  *)
(***************************************************************************)

\* The rows write_to_db appended to a table, in the order of the append_dup
\* calls.
Appended(table) ==
    SubSeq(AfterTable(table), Len(BeforeTable(table)) + 1, Len(AfterTable(table)))

\* (transition id, address) of a row of AccountChangeSet.
AccountOrderKey(row) == <<row.key, row.value.address>>

\* (transition id, address, storage key) of a row of StorageChangeSet.
StorageOrderKey(row) == <<row.key[1], row.key[2], row.value.key>>

RECURSIVE LexLeq(_, _)
LexLeq(k1, k2) ==
    \/ k1 = << >>
    \/ Head(k1) < Head(k2)
    \/ Head(k1) = Head(k2) /\ LexLeq(Tail(k1), Tail(k2))

AccountAppendsSorted ==
    Written =>
        LET rows == Appended("AccountChangeSet")
        IN  \A i \in 1..(Len(rows) - 1) :
                LexLeq(AccountOrderKey(rows[i]), AccountOrderKey(rows[i + 1]))

StorageAppendsSorted ==
    Written =>
        LET rows == Appended("StorageChangeSet")
        IN  \A i \in 1..(Len(rows) - 1) :
                LexLeq(StorageOrderKey(rows[i]), StorageOrderKey(rows[i + 1]))

\* C30: for any journal, the append_dup calls of write_to_db arrive in sorted
\* order on each dup-sort table: on AccountChangeSet in non-decreasing
\* (transition id, address), and on StorageChangeSet in non-decreasing
\* (transition id, address, storage key), also when one transition holds
\* several StorageChanged changes, or a StorageChanged and a StorageWiped, for
\* the same address.
C30_AppendsSorted == AccountAppendsSorted /\ StorageAppendsSorted

(***************************************************************************)
(* Properties of the sort of write_to_db.                                  *)
(***************************************************************************)

SameSortKey(c1, c2) == SortKeyLeq(c1, c2) /\ SortKeyLeq(c2, c1)

\* The changes sorted by (transition id, address) with changes of equal key
\* left in the order they were emitted in.
StablySorted(changes) ==
    LET order == CHOOSE o \in SortedOrders(changes) :
                    \A i, j \in DOMAIN changes :
                        (i < j /\ SameSortKey(changes[o[i]], changes[o[j]])) => o[i] < o[j]
    IN  [k \in DOMAIN changes |-> changes[order[k]]]

\* C31: the sort in write_to_db is stable: changes that share the same
\* (transition id, address) are written to their change-set table in the
\* order in which they were emitted into changes.
C31_SortStable ==
    Succeeded =>
        LET stable == write_sorted(Journal, db.before, db.first,
                                   StablySorted(Journal.changes))
        IN  /\ AfterTable("AccountChangeSet") = stable.tables.AccountChangeSet
            /\ AfterTable("StorageChangeSet") = stable.tables.StorageChangeSet

(***************************************************************************)
(* Properties of one wake of SyncController.                               *)
(***************************************************************************)

\* The positions of the ForkchoiceUpdated messages among the drained ones.
ForkchoiceUpdates(messages) ==
    {i \in DOMAIN messages : messages[i].kind = "ForkchoiceUpdated"}

\* The fork choice known after the messages: the state of the last
\* ForkchoiceUpdated, or the one known before when there is none.
LastForkchoice(before, messages) ==
    IF ForkchoiceUpdates(messages) = {} THEN before
    ELSE LET latest == CHOOSE i \in ForkchoiceUpdates(messages) :
                          \A j \in ForkchoiceUpdates(messages) : j <= i
         IN  Some(messages[latest].state)

\* C32: on each wake the SyncController first drains every message that is
\* ready, recording the state of the last ForkchoiceUpdated drained, with
\* NewPayload changing no state, and only then, if a fork choice is known,
\* advances the pipeline state machine exactly once; it never advances the
\* pipeline while a ready message is still undrained and never advances it
\* twice in one wake.
C32_DrainThenAdvanceOnce ==
    [][(\E output \in PipelineOutputs : Poll(output)) =>
          /\ ctl'.this.message_rx = << >>
          /\ ctl'.this.forkchoice_state =
                 LastForkchoice(ctl.this.forkchoice_state, ctl.this.message_rx)
          /\ ctl'.last.undrained = 0
          /\ ctl'.last.advanced = IF ctl'.this.forkchoice_state = None THEN 0 ELSE 1
          /\ ctl'.last.advanced = 0 => ctl'.this.pipeline_state = ctl.this.pipeline_state
          /\ ctl'.last.advanced = 1 =>
                 \E output \in PipelineOutputs :
                     ctl'.this.pipeline_state =
                         next_pipeline_state(ctl.this.pipeline_state, output, FALSE)]_vars

C32_Witness ==
    /\ Woken
    /\ Len(ctl.last.drained) = 3
    /\ ForkchoiceUpdates(ctl.last.drained) = {1, 2}
    /\ ctl.last.drained[1].state # ctl.last.drained[2].state
    /\ ctl.last.pre_forkchoice = None
    /\ ctl.last.advanced = 1
    /\ ctl.last.pre.state = "Running"
    /\ Controller.pipeline_state.state = "Idle"

\* The pipelines a pipeline state owns: the one of Idle, or the one of the
\* future of Running; none when the state is empty.
OwnedPipelines(state) ==
    IF state.state = "Idle" THEN {state.pipeline}
    ELSE IF state.state = "Running" THEN {state.fut.pipeline}
    ELSE {}

\* C33: single-owner rule. A controller that starts with a pipeline state set
\* holds, after any sequence of polls and messages, exactly one pipeline state
\* whenever poll returns: Idle owning the pipeline or Running owning the future
\* that owns it; the state is never left empty and the expectation of poll
\* that the pipeline state is set never fails.
C33_SingleOwner ==
    ctl.phase = "run" =>
        /\ Controller.pipeline_state # NoPipelineState
        /\ Controller.pipeline_state.state \in {"Idle", "Running"}
        /\ Cardinality(OwnedPipelines(Controller.pipeline_state)) = 1
        /\ ctl.last.result # "Panic"

C33_Witness ==
    /\ Woken
    /\ ctl.last.advanced = 1
    /\ ctl.last.pre.state = "Running"
    /\ ctl.last.output # None
    /\ ctl.last.pre_forkchoice # None
    /\ OwnedPipelines(Controller.pipeline_state) = OwnedPipelines(ctl.last.pre)

(***************************************************************************)
(* Properties of a wipe followed by writes.                                *)
(***************************************************************************)

\* The addresses the journal destroys and writes slots of afterwards.
WrittenAfterWipe ==
    {a \in Addresses :
        \E w \in ChangesOf(Journal, {"StorageWiped"}),
           c \in ChangesOf(Journal, {"StorageChanged"}) :
            /\ Journal.changes[w].address = a
            /\ Journal.changes[c].address = a
            /\ w < c}

\* The non-zero slots of an address written after its last destroy.
NonZeroAfterWipe(a) ==
    LET slots == SlotsAfter(SlotsBefore(a), Journal.changes, a)
    IN  {StorageEntry(slot, slots[slot]) : slot \in {k \in DOMAIN slots : slots[k] # 0}}

\* C34: a wipe truncates everything before it. If a journal destroys account a
\* and later writes slots of a with change_storage, then after write_to_db
\* PlainStorageState holds for a exactly the non-zero slots written after the
\* destroy: no slot PlainStorageState held for a before, and no slot written
\* in the journal before the destroy, survives unless it was written again
\* after the destroy.
C34_WipeTruncates ==
    Succeeded => \A a \in WrittenAfterWipe : EntriesAfter(a) = NonZeroAfterWipe(a)

(***************************************************************************)
(* Properties of the changes recorded after a merge.                       *)
(***************************************************************************)

ChangeRecorders ==
    {"create_account", "change_account", "destroy_account", "change_storage"}

\* The positions in the changes of the receiver of the changes extend took.
TakenByExtend ==
    (Len(last.pre_self.changes) + 1)..Len(ps[last.self].changes)

\* C35: transitions stay separate across a merge. After a.extend(b) where b
\* holds at least one change, the next change recorded on a by create_account,
\* change_account, destroy_account or change_storage, before any further
\* finish_transition, gets a transition id strictly greater than the id of
\* every change taken from b.
C35_TransitionsStaySeparate ==
    [][( /\ last.op = "extend"
         /\ last.pre_other.changes # << >>
         /\ last'.op \in ChangeRecorders
         /\ last'.self = last.self )
       => \A n \in (Len(ps[last.self].changes) + 1)..Len(ps'[last.self].changes),
             t \in TakenByExtend :
               ps'[last.self].changes[n].id > ps[last.self].changes[t].id]_vars

====
